---- MODULE Spec2Model ----
(***************************************************************************)
(* Smart Vehicle IDS (src/app.py): the telemetry generator, the rule       *)
(* engine, the analytics aggregator and the three HTTP handlers.           *)
(*                                                                         *)
(* Numbers that the program keeps as floats rounded to two decimals        *)
(* (ECU health, CAN anomaly score, probabilities) are kept in hundredths.  *)
(* A value that is None in the program is the empty sequence, a value that *)
(* is present is a one-element sequence.                                   *)
(***************************************************************************)
EXTENDS Integers, Sequences, FiniteSets, TLC

VARIABLES
    FORCE_ATTACK,   \* the module-level switch (app.py:29)
    ANALYTICS,      \* the module-level aggregates (app.py:35-40)
    LAST_SNAPSHOT,  \* the previous snapshot, <<>> for None (app.py:42)
    clock,          \* logical wall clock: telemetry requests accepted so far
    log_lines,      \* lines appended to logs/telemetry.log
    response,       \* the last HTTP response sent: [op, status, body]
    pc,             \* per request thread, the line it is at ("idle": no request)
    local           \* per request thread, its handler's local variables

vars == <<FORCE_ATTACK, ANALYTICS, LAST_SNAPSHOT, clock, log_lines, response, pc, local>>

globals == <<FORCE_ATTACK, ANALYTICS, LAST_SNAPSHOT, clock, log_lines, response>>

threads == <<pc, local>>

(***************************************************************************)
(* Program constants.                                                      *)
(***************************************************************************)
ECU_NAMES ==
    <<"Engine ECU", "Brake ECU", "Steering ECU", "Infotainment", "Telematics", "ADAS ECU">>

EcuSet == {ECU_NAMES[i] : i \in 1..Len(ECU_NAMES)}

WarningEcus == {"Engine ECU", "Brake ECU", "Telematics"}

FramesPerTick == 15

AnomalyFrameThreshold == 8

SpeedJumpLimit == 60

BrakeSpeedLimit == 120

TimelineCap == 200

TopN == 5

None == <<>>

Some(x) == <<x>>

(***************************************************************************)
(* Helpers on sequences.                                                   *)
(***************************************************************************)
Abs(x) == IF x < 0 THEN -x ELSE x

Min(a, b) == IF a < b THEN a ELSE b

RECURSIVE CountIf(_, _)
CountIf(s, level_set) ==
    IF s = <<>> THEN 0
    ELSE (IF Head(s).level \in level_set THEN 1 ELSE 0) + CountIf(Tail(s), level_set)

\* round(random.uniform(lo, hi), 2) in hundredths, for a draw f in 0..100.
Uniform(lo, hi, f) == lo + (f * (hi - lo)) \div 100

(***************************************************************************)
(* collections.Counter: a dict, so its keys keep the order in which they   *)
(* were first counted.  A counter is a sequence of [key, count] in that    *)
(* order; a key that is absent counts 0.                                   *)
(***************************************************************************)
Counter == <<>>

CounterKeys(c) == {c[i].key : i \in 1..Len(c)}

CounterGet(c, k) ==
    IF k \in CounterKeys(c)
    THEN (CHOOSE e \in {c[i] : i \in 1..Len(c)} : e.key = k).count
    ELSE 0

\* c[k] = v
CounterSet(c, k, v) ==
    IF k \in CounterKeys(c)
    THEN [i \in 1..Len(c) |-> IF c[i].key = k THEN [key |-> k, count |-> v] ELSE c[i]]
    ELSE Append(c, [key |-> k, count |-> v])

\* c[k] += 1
CounterInc(c, k) == CounterSet(c, k, CounterGet(c, k) + 1)

RECURSIVE CounterTotal(_)
CounterTotal(c) == IF c = <<>> THEN 0 ELSE Head(c).count + CounterTotal(Tail(c))

\* InsertByCount that puts e before the entries of its own count.
RECURSIVE InsertByCount_Unstable(_, _)
InsertByCount_Unstable(sorted, e) ==
    IF sorted = <<>> THEN <<e>>
    ELSE IF Head(sorted).count > e.count
         THEN <<Head(sorted)>> \o InsertByCount_Unstable(Tail(sorted), e)
         ELSE <<e>> \o sorted

\* Where e goes in a list already sorted by count descending: after every
\* entry whose count is at least e's (the sort is stable).
RECURSIVE InsertByCount(_, _)
InsertByCount(sorted, e) ==
    IF sorted = <<>> THEN <<e>>
    ELSE IF Head(sorted).count >= e.count
         THEN <<Head(sorted)>> \o InsertByCount(Tail(sorted), e)
         ELSE <<e>> \o sorted

RECURSIVE SortByCount(_, _)
SortByCount(c, acc) ==
    IF c = <<>> THEN acc ELSE SortByCount(Tail(c), InsertByCount(acc, Head(c)))

\* Counter.most_common(n)
most_common(c, n) ==
    LET sorted == SortByCount(c, <<>>)
    IN  SubSeq(sorted, 1, Min(n, Len(sorted)))

(***************************************************************************)
(* generate_can_packets: every frame draws its ECU and a uniform value u   *)
(* (in hundredths); the frame is anomalous when u < anomaly_prob.  The     *)
(* frame's id, payload and time of day are not modelled: nothing reads     *)
(* them.                                                                   *)
(***************************************************************************)
generate_can_packets(attack_hint, frame_draws) ==
    LET anomaly_prob == IF attack_hint THEN 35 ELSE 3
    IN  [i \in 1..FramesPerTick |->
            [ecu     |-> frame_draws[i].ecu,
             dlc     |-> 8,
             anomaly |-> frame_draws[i].u < anomaly_prob]]

(***************************************************************************)
(* evaluate_rules: ips[r] is the random_ip() that rule r draws when it     *)
(* fires.  Returns [rule_attack, alerts].                                  *)
(***************************************************************************)
IsAnomalous(p) == p.anomaly

NoAlerts == [rule_attack |-> FALSE, alerts |-> <<>>]

Raise(acc, alert) == [rule_attack |-> TRUE, alerts |-> Append(acc.alerts, alert)]

\* CanAnomalyRule with the threshold compared by > instead of >=.
CanAnomalyRule_Strict(acc, can_packets, ip) ==
    LET anomaly_frames == SelectSeq(can_packets, IsAnomalous)
    IN  IF Len(anomaly_frames) > AnomalyFrameThreshold
        THEN Raise(acc, [level       |-> "HIGH",
                         source      |-> "Telematics",
                         message     |-> [text |-> "anomalous CAN frames detected",
                                          arg  |-> Len(anomaly_frames)],
                         attack_type |-> "DoS/Fuzzing",
                         attacker_ip |-> ip])
        ELSE acc

\* ----- CAN Anomaly Rule -----
CanAnomalyRule(acc, can_packets, ip) ==
    LET anomaly_frames == SelectSeq(can_packets, IsAnomalous)
    IN  IF Len(anomaly_frames) >= AnomalyFrameThreshold
        THEN Raise(acc, [level       |-> "HIGH",
                         source      |-> "Telematics",
                         message     |-> [text |-> "anomalous CAN frames detected",
                                          arg  |-> Len(anomaly_frames)],
                         attack_type |-> "DoS/Fuzzing",
                         attacker_ip |-> ip])
        ELSE acc

\* PhysicsRule with the limit compared by >= instead of >.
PhysicsRule_Inclusive(acc, speed, prev_snapshot, ip) ==
    IF prev_snapshot # None
    THEN LET delta == Abs(speed - prev_snapshot[1].speed)
         IN  IF delta >= SpeedJumpLimit
             THEN Raise(acc, [level       |-> "HIGH",
                              source      |-> "Engine ECU",
                              message     |-> [text |-> "Implausible speed jump km/h",
                                               arg  |-> delta],
                              attack_type |-> "Physical Implausibility",
                              attacker_ip |-> ip])
             ELSE acc
    ELSE acc

\* ----- Physics Rule -----
PhysicsRule(acc, speed, prev_snapshot, ip) ==
    IF prev_snapshot # None
    THEN LET delta == Abs(speed - prev_snapshot[1].speed)
         IN  IF delta > SpeedJumpLimit
             THEN Raise(acc, [level       |-> "HIGH",
                              source      |-> "Engine ECU",
                              message     |-> [text |-> "Implausible speed jump km/h",
                                               arg  |-> delta],
                              attack_type |-> "Physical Implausibility",
                              attacker_ip |-> ip])
             ELSE acc
    ELSE acc

\* BrakeRule with the limit compared by >= instead of >.
BrakeRule_Inclusive(acc, snapshot, speed, ip) ==
    IF snapshot.brake_status = "ON" /\ speed >= BrakeSpeedLimit
    THEN Raise(acc, [level       |-> "CRITICAL",
                     source      |-> "Brake ECU",
                     message     |-> [text |-> "Brake engaged at km/h", arg |-> speed],
                     attack_type |-> "Safety Violation",
                     attacker_ip |-> ip])
    ELSE acc

\* ----- Brake Rule -----
BrakeRule(acc, snapshot, speed, ip) ==
    IF snapshot.brake_status = "ON" /\ speed > BrakeSpeedLimit
    THEN Raise(acc, [level       |-> "CRITICAL",
                     source      |-> "Brake ECU",
                     message     |-> [text |-> "Brake engaged at km/h", arg |-> speed],
                     attack_type |-> "Safety Violation",
                     attacker_ip |-> ip])
    ELSE acc

\* evaluate_rules with the brake rule run before the physics rule.
evaluate_rules_BrakeFirst(snapshot, prev_snapshot, can_packets, ips) ==
    LET speed == snapshot.speed
        r1 == CanAnomalyRule(NoAlerts, can_packets, ips[1])
        r2 == BrakeRule(r1, snapshot, speed, ips[3])
    IN  PhysicsRule(r2, speed, prev_snapshot, ips[2])

evaluate_rules(snapshot, prev_snapshot, can_packets, ips) ==
    LET speed == snapshot.speed
        r1 == CanAnomalyRule(NoAlerts, can_packets, ips[1])
        r2 == PhysicsRule(r1, speed, prev_snapshot, ips[2])
    IN  BrakeRule(r2, snapshot, speed, ips[3])

(***************************************************************************)
(* update_analytics, in its three parts: the timeline append, the          *)
(* eviction, the counting loop.                                            *)
(***************************************************************************)
TimelineEntry(alerts, attack_active, now) ==
    [timestamp       |-> now,
     total_alerts    |-> Len(alerts),
     critical_alerts |-> CountIf(alerts, {"HIGH", "CRITICAL"}),
     attack_active   |-> attack_active]

\* EvictOldest that never evicts.
EvictOldest_Never(timeline) == timeline

\* EvictOldest with pop() instead of pop(0): the newest entry goes.
EvictOldest_PopLast(timeline) ==
    IF Len(timeline) > TimelineCap THEN SubSeq(timeline, 1, Len(timeline) - 1) ELSE timeline

\* if len(events_timeline) > 200: events_timeline.pop(0)
EvictOldest(timeline) ==
    IF Len(timeline) > TimelineCap THEN Tail(timeline) ELSE timeline

\* CountAlert that counts an ECU only once it is in the by-ECU counter.
CountAlert_KnownEcu(an, a) ==
    LET by_ecu == IF a.source \in CounterKeys(an.attack_counts_by_ecu)
                  THEN CounterInc(an.attack_counts_by_ecu, a.source)
                  ELSE an.attack_counts_by_ecu
    IN  [an EXCEPT !.attack_counts_by_ecu      = by_ecu,
                   !.attack_counts_by_type     = CounterInc(@, a.attack_type),
                   !.attack_counts_by_attacker = CounterInc(@, a.attacker_ip)]

\* The body of the loop, for one alert.
CountAlert(an, a) ==
    LET by_ecu == IF a.source \in EcuSet
                  THEN CounterInc(an.attack_counts_by_ecu, a.source)
                  ELSE an.attack_counts_by_ecu
    IN  [an EXCEPT !.attack_counts_by_ecu      = by_ecu,
                   !.attack_counts_by_type     = CounterInc(@, a.attack_type),
                   !.attack_counts_by_attacker = CounterInc(@, a.attacker_ip)]

RECURSIVE CountAlerts(_, _)
CountAlerts(an, alerts) ==
    IF alerts = <<>> THEN an ELSE CountAlerts(CountAlert(an, Head(alerts)), Tail(alerts))

update_analytics(an, alerts, attack_active, now) ==
    LET entry    == TimelineEntry(alerts, attack_active, now)
        appended == Append(an.events_timeline, entry)
    IN  CountAlerts([an EXCEPT !.events_timeline = EvictOldest(appended)], alerts)

(***************************************************************************)
(* generate_telemetry.  d is the tick's random draws:                      *)
(*   speed       random.randint(0, 140)                                    *)
(*   brake_u     random.random() in hundredths; ON when below 25           *)
(*   health_f    per ECU, the uniform draw of its health in [0.8, 1.0]     *)
(*   base        random.random() * 0.2, in hundredths                      *)
(*   hint_u      random.random() in hundredths; a hint when below 10       *)
(*   frames      per frame, its ECU and its uniform draw                   *)
(*   ips         per rule, the random_ip() of its alert                    *)
(*   warn_f      per ECU, the uniform draw of a health in [0.3, 0.7]       *)
(*   score_f     the uniform draw of the forced score in [0.85, 1.0]       *)
(*   forced_f    per ECU, the uniform draw of a health in [0.2, 0.5]       *)
(*   log_ok      whether the append to the log file succeeds               *)
(***************************************************************************)
attack_hint(force, d) == force \/ d.hint_u < 10

NewSnapshot(force, d, can_packets, now) ==
    [speed             |-> d.speed,
     brake_status      |-> IF d.brake_u < 25 THEN "ON" ELSE "OFF",
     ecu_health        |-> [e \in EcuSet |-> Uniform(80, 100, d.health_f[e])],
     can_anomaly_score |-> d.base,
     attack_active     |-> FALSE,
     heatmap           |-> [i \in 1..Len(ECU_NAMES) |-> [name |-> ECU_NAMES[i], status |-> "ok"]],
     security_alerts   |-> <<>>,
     can_packets       |-> can_packets,
     forced_attack     |-> force,
     timestamp         |-> now]

\* ApplyRules that degrades the heatmap and leaves the verdict as it was.
ApplyRules_NoVerdict(snapshot, rules, d) ==
    LET with_alerts == [snapshot EXCEPT !.security_alerts = @ \o rules.alerts]
    IN  IF rules.rule_attack
        THEN [with_alerts EXCEPT
                !.heatmap = [i \in DOMAIN @ |->
                                IF @[i].name \in WarningEcus
                                THEN [@[i] EXCEPT !.status = "warning"]
                                ELSE @[i]],
                !.ecu_health = [e \in EcuSet |->
                                IF e \in WarningEcus
                                THEN Uniform(30, 70, d.warn_f[e])
                                ELSE @[e]]]
        ELSE with_alerts

\* ApplyRules that degrades every ECU.
ApplyRules_AllEcus(snapshot, rules, d) ==
    LET with_alerts == [snapshot EXCEPT !.security_alerts = @ \o rules.alerts]
    IN  IF rules.rule_attack
        THEN [with_alerts EXCEPT
                !.attack_active = TRUE,
                !.heatmap = [i \in DOMAIN @ |-> [@[i] EXCEPT !.status = "warning"]],
                !.ecu_health = [e \in EcuSet |-> Uniform(30, 70, d.warn_f[e])]]
        ELSE with_alerts

\* snapshot["security_alerts"].extend(rule_alerts); if rule_attack: ...
ApplyRules(snapshot, rules, d) ==
    LET with_alerts == [snapshot EXCEPT !.security_alerts = @ \o rules.alerts]
    IN  IF rules.rule_attack
        THEN [with_alerts EXCEPT
                !.attack_active = TRUE,
                !.heatmap = [i \in DOMAIN @ |->
                                IF @[i].name \in WarningEcus
                                THEN [@[i] EXCEPT !.status = "warning"]
                                ELSE @[i]],
                !.ecu_health = [e \in EcuSet |->
                                IF e \in WarningEcus
                                THEN Uniform(30, 70, d.warn_f[e])
                                ELSE @[e]]]
        ELSE with_alerts

\* if FORCE_ATTACK: ...
ApplyForce(snapshot, force, d) ==
    IF force
    THEN [snapshot EXCEPT
            !.attack_active = TRUE,
            !.can_anomaly_score = Uniform(85, 100, d.score_f),
            !.heatmap = [i \in DOMAIN @ |-> [@[i] EXCEPT !.status = "compromised"]],
            !.ecu_health = [e \in EcuSet |-> Uniform(20, 50, d.forced_f[e])]]
    ELSE snapshot

\* log_telemetry without its try: a failing append raises to the caller.
log_telemetry_NoExcept(lines, d) ==
    IF d.log_ok
    THEN [lines |-> lines + 1, raised |-> FALSE]
    ELSE [lines |-> lines,     raised |-> TRUE]

\* try: append a line to the log file; except: pass.  Returns the lines of
\* the file and whether an exception leaves the function.
log_telemetry(lines, d) ==
    IF d.log_ok
    THEN [lines |-> lines + 1, raised |-> FALSE]
    ELSE [lines |-> lines,     raised |-> FALSE]

\* The answer to a request whose handler raised.
ServerError(op) == [op |-> op, status |-> 500, body |-> <<>>]

\* TickSnapshot with the forced override before the rules' degradation.
TickSnapshot_ForceFirst(force, prev, d, now) ==
    LET can_packets == generate_can_packets(attack_hint(force, d), d.frames)
        snapshot    == NewSnapshot(force, d, can_packets, now)
        rules       == evaluate_rules(snapshot, prev, can_packets, d.ips)
    IN  ApplyRules(ApplyForce(snapshot, force, d), rules, d)

\* The snapshot a tick produces when it runs alone, reading the switch as
\* force and the previous snapshot as prev.
TickSnapshot(force, prev, d, now) ==
    LET can_packets == generate_can_packets(attack_hint(force, d), d.frames)
        snapshot    == NewSnapshot(force, d, can_packets, now)
        rules       == evaluate_rules(snapshot, prev, can_packets, d.ips)
    IN  ApplyForce(ApplyRules(snapshot, rules, d), force, d)

(***************************************************************************)
(* The handlers, each run from its first line to its response without      *)
(* another request in between.                                             *)
(***************************************************************************)
\* The request threads of the development server (app.run, threaded).
Threads == {"t1", "t2"}

IdleLocal ==
    [d        |-> <<>>,     \* the tick's draws
     now      |-> 0,        \* datetime.utcnow()
     packets  |-> <<>>,     \* can_packets
     snapshot |-> None,     \* snapshot, once built
     has_prev |-> FALSE,    \* whether LAST_SNAPSHOT was read
     prev     |-> None,     \* the LAST_SNAPSHOT passed to evaluate_rules
     i        |-> 0,        \* the alert the counting loop is at
     c        |-> 0,        \* the counter being incremented: 1, 2, 3
     tmp      |-> 0,        \* the count loaded by +=
     req      |-> <<>>,     \* request.json
     view     |-> <<>>]     \* the analytics lists read so far

Init ==
    /\ FORCE_ATTACK = FALSE
    /\ ANALYTICS = [attack_counts_by_ecu      |-> Counter,
                    attack_counts_by_type     |-> Counter,
                    attack_counts_by_attacker |-> Counter,
                    events_timeline           |-> <<>>]
    /\ LAST_SNAPSHOT = None
    /\ clock = 0
    /\ log_lines = 0
    /\ response = [op |-> "none", status |-> 0, body |-> <<>>]
    /\ pc = [t \in Threads |-> "idle"]
    /\ local = [t \in Threads |-> IdleLocal]

\* generate_telemetry without its global statement: line 191 binds a local
\* name and the module's LAST_SNAPSHOT stays as it was.
generate_telemetry_NoGlobal(d) ==
    LET now      == clock + 1
        snapshot == TickSnapshot(FORCE_ATTACK, LAST_SNAPSHOT, d, now)
        log      == log_telemetry(log_lines, d)
    IN  /\ clock' = now
        /\ ANALYTICS' = update_analytics(ANALYTICS, snapshot.security_alerts,
                                         snapshot.attack_active, now)
        /\ log_lines' = log.lines
        /\ response' = IF log.raised
                       THEN ServerError("telemetry")
                       ELSE [op |-> "telemetry", status |-> 200, body |-> <<snapshot>>]
        /\ UNCHANGED <<FORCE_ATTACK, LAST_SNAPSHOT, threads>>

\* GET /api/telemetry: jsonify(generate_telemetry())
generate_telemetry(d) ==
    LET now      == clock + 1
        snapshot == TickSnapshot(FORCE_ATTACK, LAST_SNAPSHOT, d, now)
        log      == log_telemetry(log_lines, d)
    IN  /\ clock' = now
        /\ ANALYTICS' = update_analytics(ANALYTICS, snapshot.security_alerts,
                                         snapshot.attack_active, now)
        /\ LAST_SNAPSHOT' = Some(snapshot)
        /\ log_lines' = log.lines
        /\ response' = IF log.raised
                       THEN ServerError("telemetry")
                       ELSE [op |-> "telemetry", status |-> 200, body |-> <<snapshot>>]
        /\ UNCHANGED <<FORCE_ATTACK, threads>>

\* POST /api/force_attack.  req is request.json: a JSON object with or
\* without a "mode" member, or something that has no .get (no JSON body, a
\* JSON list), on which request.json.get raises before the assignment.
force_attack(req) ==
    IF req.kind = "object"
    THEN LET mode == req.mode = Some("on")
         IN  /\ FORCE_ATTACK' = mode
             /\ response' = [op |-> "force_attack", status |-> 200,
                             body |-> <<[forced_attack |-> mode]>>]
             /\ UNCHANGED <<ANALYTICS, LAST_SNAPSHOT, clock, log_lines, threads>>
    ELSE /\ response' = ServerError("force_attack")
         /\ UNCHANGED <<FORCE_ATTACK, ANALYTICS, LAST_SNAPSHOT, clock, log_lines, threads>>

\* GET /api/analytics
AnalyticsView(an) ==
    LET top_ecu  == most_common(an.attack_counts_by_ecu, TopN)
        top_type == most_common(an.attack_counts_by_type, TopN)
        top_att  == most_common(an.attack_counts_by_attacker, TopN)
    IN  [top_ecu_targets  |-> [i \in DOMAIN top_ecu |->
                                 [ecu |-> top_ecu[i].key, count |-> top_ecu[i].count]],
         top_attack_types |-> [i \in DOMAIN top_type |->
                                 [type |-> top_type[i].key, count |-> top_type[i].count]],
         top_attackers    |-> [i \in DOMAIN top_att |->
                                 [attacker |-> top_att[i].key, count |-> top_att[i].count]],
         events_timeline  |-> an.events_timeline]

\* get_analytics that hands the timeline out and starts a new one.
get_analytics_Drain ==
    /\ response' = [op |-> "analytics", status |-> 200, body |-> <<AnalyticsView(ANALYTICS)>>]
    /\ ANALYTICS' = [ANALYTICS EXCEPT !.events_timeline = <<>>]
    /\ UNCHANGED <<FORCE_ATTACK, LAST_SNAPSHOT, clock, log_lines, threads>>

get_analytics ==
    /\ response' = [op |-> "analytics", status |-> 200, body |-> <<AnalyticsView(ANALYTICS)>>]
    /\ UNCHANGED <<FORCE_ATTACK, ANALYTICS, LAST_SNAPSHOT, clock, log_lines, threads>>

(***************************************************************************)
(* The inputs the handlers are run on.                                     *)
(***************************************************************************)
MaxTicks == 2

SpeedSamples == {0, 60, 120, 121, 140}

BrakeSamples == {24, 25}

\* random_ip(): four octets, each in 1..254.
IpSamples == {<<10, 0, 0, 1>>, <<254, 1, 254, 1>>}

\* A batch whose first n frames draw low and whose other frames draw 35,
\* which is anomalous under neither probability.
Batch(n, low) ==
    [i \in 1..FramesPerTick |->
        [ecu |-> ECU_NAMES[((i - 1) % Len(ECU_NAMES)) + 1],
         u   |-> IF i <= n THEN low ELSE 35]]

\* 2 is anomalous under both probabilities, 34 only under the hint's.
FrameSamples ==
    {[hint_u |-> 10, frames |-> Batch(n, 2)] : n \in {0, 7, 8, 15}}
    \cup {[hint_u |-> h, frames |-> Batch(8, 34)] : h \in {9, 10}}

IpA == <<10, 0, 0, 1>>

\* The physics rule's alert from either address, the others' from the first.
IpDraws == {<<IpA, ip, IpA>> : ip \in IpSamples}

\* The uniform draws of the ECUs, spread over 0..100 from the draw f.
Spread(f) ==
    LET idx(e) == CHOOSE i \in 1..Len(ECU_NAMES) : ECU_NAMES[i] = e
    IN  [e \in EcuSet |-> (f + 20 * (idx(e) - 1)) % 101]

Draw(speed, brake_u, fs, ips, f, log_ok) ==
    [speed    |-> speed,
     brake_u  |-> brake_u,
     health_f |-> Spread(f),
     base     |-> (f * 20) \div 100,
     hint_u   |-> fs.hint_u,
     frames   |-> fs.frames,
     ips      |-> ips,
     warn_f   |-> Spread(100 - f),
     score_f  |-> f,
     forced_f |-> Spread(f),
     log_ok   |-> log_ok]

\* Every speed and brake sample, with no anomalous frame and with eight.
RuleDraws ==
    {Draw(speed, brake_u, [hint_u |-> 10, frames |-> Batch(n, 2)], <<IpA, IpA, IpA>>, 0, TRUE) :
        speed \in SpeedSamples, brake_u \in BrakeSamples, n \in {0, 8}}

\* Every frame sample, at a speed and a brake status that fire no other rule.
FrameDraws ==
    {Draw(60, 25, fs, <<IpA, IpA, IpA>>, 0, TRUE) : fs \in FrameSamples}

\* The other draws varied, on ticks that raise alerts.
OtherDraws ==
    {Draw(speed, 24, [hint_u |-> 10, frames |-> Batch(8, 2)], ips, f, log_ok) :
        speed \in {0, 140}, ips \in IpDraws, f \in {0, 100}, log_ok \in BOOLEAN}

TickDraws == RuleDraws \cup FrameDraws \cup OtherDraws

Requests ==
    {[kind |-> "object", mode |-> Some("on")],
     [kind |-> "object", mode |-> Some("off")],
     [kind |-> "object", mode |-> Some("banana")],
     [kind |-> "object", mode |-> None],
     [kind |-> "other",  mode |-> None]}

Next ==
    \/ \E d \in TickDraws : clock < MaxTicks /\ generate_telemetry(d)
    \/ \E req \in Requests : force_attack(req)
    \/ get_analytics

Spec == Init /\ [][Next]_vars

(***************************************************************************)
(* The long run: quiet ticks fill the timeline with the switch off; from   *)
(* LongSlack entries before the cap to LongSlack ticks beyond it the ticks *)
(* also raise alerts and the switch is toggled.                            *)
(***************************************************************************)
LongSlack == 2

QuietDraw == Draw(60, 25, [hint_u |-> 10, frames |-> Batch(0, 2)], <<IpA, IpA, IpA>>, 0, TRUE)

LoudDraw == Draw(140, 24, [hint_u |-> 10, frames |-> Batch(8, 2)], <<IpA, IpA, IpA>>, 0, TRUE)

NearCap == clock >= TimelineCap - LongSlack

LongDraws == IF NearCap THEN {QuietDraw, LoudDraw} ELSE {QuietDraw}

NextLong ==
    \/ \E d \in LongDraws : clock < TimelineCap + LongSlack /\ generate_telemetry(d)
    \/ \E req \in Requests : NearCap /\ force_attack(req)
    \/ get_analytics

SpecLong == Init /\ [][NextLong]_vars

(***************************************************************************)
(* The handlers as the request threads run them: one step per access to    *)
(* the module-level state, so that another thread's step may fall between  *)
(* any two of them.  Nothing in app.py takes a lock.                       *)
(***************************************************************************)
Goto(t, label, loc) ==
    /\ pc' = [pc EXCEPT ![t] = label]
    /\ local' = [local EXCEPT ![t] = loc]

AllIdle == \A t \in Threads : pc[t] = "idle"

\* GET /api/telemetry accepted; lines 148-153 draw the tick's values.
tel_accept(t, d) ==
    /\ pc[t] = "idle"
    /\ clock' = clock + 1
    /\ Goto(t, "hint", [IdleLocal EXCEPT !.d = d, !.now = clock + 1])
    /\ UNCHANGED <<FORCE_ATTACK, ANALYTICS, LAST_SNAPSHOT, log_lines, response>>

\* line 155 reads FORCE_ATTACK; line 157
tel_hint(t) ==
    /\ pc[t] = "hint"
    /\ Goto(t, "build",
            [local[t] EXCEPT !.packets =
                generate_can_packets(attack_hint(FORCE_ATTACK, local[t].d), local[t].d.frames)])
    /\ UNCHANGED globals

\* lines 158-169; line 167 reads FORCE_ATTACK
tel_build(t) ==
    /\ pc[t] = "build"
    /\ Goto(t, "rules",
            [local[t] EXCEPT !.snapshot =
                Some(NewSnapshot(FORCE_ATTACK, local[t].d, local[t].packets, local[t].now))])
    /\ UNCHANGED globals

\* line 172 reads LAST_SNAPSHOT; lines 173-180
tel_rules(t) ==
    /\ pc[t] = "rules"
    /\ LET snapshot == local[t].snapshot[1]
           rules    == evaluate_rules(snapshot, LAST_SNAPSHOT, local[t].packets, local[t].d.ips)
       IN  Goto(t, "force",
                [local[t] EXCEPT !.has_prev = TRUE,
                                 !.prev     = LAST_SNAPSHOT,
                                 !.snapshot = Some(ApplyRules(snapshot, rules, local[t].d))])
    /\ UNCHANGED globals

\* lines 183-188; line 183 reads FORCE_ATTACK
tel_force(t) ==
    /\ pc[t] = "force"
    /\ Goto(t, "append",
            [local[t] EXCEPT !.snapshot =
                Some(ApplyForce(local[t].snapshot[1], FORCE_ATTACK, local[t].d))])
    /\ UNCHANGED globals

\* lines 126-131: events_timeline.append(...)
tel_append(t) ==
    /\ pc[t] = "append"
    /\ LET snapshot == local[t].snapshot[1]
           entry    == TimelineEntry(snapshot.security_alerts, snapshot.attack_active,
                                     local[t].now)
       IN  ANALYTICS' = [ANALYTICS EXCEPT !.events_timeline = Append(@, entry)]
    /\ Goto(t, "len", local[t])
    /\ UNCHANGED <<FORCE_ATTACK, LAST_SNAPSHOT, clock, log_lines, response>>

\* Where the counting loop goes for alert i: its first counter, or past the
\* loop.
LoopAt(t, i) ==
    IF i <= Len(local[t].snapshot[1].security_alerts)
    THEN Goto(t, "load", [local[t] EXCEPT !.i = i, !.c = 1])
    ELSE Goto(t, "last", [local[t] EXCEPT !.i = 0, !.c = 0])

\* line 133: len(events_timeline) > 200
tel_len(t) ==
    /\ pc[t] = "len"
    /\ IF Len(ANALYTICS.events_timeline) > TimelineCap
       THEN Goto(t, "pop", local[t])
       ELSE LoopAt(t, 1)
    /\ UNCHANGED globals

\* line 134: events_timeline.pop(0)
tel_pop(t) ==
    /\ pc[t] = "pop"
    /\ ANALYTICS.events_timeline # <<>>
    /\ ANALYTICS' = [ANALYTICS EXCEPT !.events_timeline = Tail(@)]
    /\ LoopAt(t, 1)
    /\ UNCHANGED <<FORCE_ATTACK, LAST_SNAPSHOT, clock, log_lines, response>>

\* The counter and the key of the += at lines 138, 139, 140.
CounterOf(an, c) ==
    CASE c = 1 -> an.attack_counts_by_ecu
      [] c = 2 -> an.attack_counts_by_type
      [] c = 3 -> an.attack_counts_by_attacker

KeyOf(a, c) ==
    CASE c = 1 -> a.source
      [] c = 2 -> a.attack_type
      [] c = 3 -> a.attacker_ip

WithCounter(an, c, counter) ==
    CASE c = 1 -> [an EXCEPT !.attack_counts_by_ecu = counter]
      [] c = 2 -> [an EXCEPT !.attack_counts_by_type = counter]
      [] c = 3 -> [an EXCEPT !.attack_counts_by_attacker = counter]

\* counter[key] += 1, first half: the count is loaded (line 137 guards the
\* first counter).
tel_load(t) ==
    /\ pc[t] = "load"
    /\ LET a == local[t].snapshot[1].security_alerts[local[t].i]
           c == local[t].c
       IN  IF c = 1 /\ a.source \notin EcuSet
           THEN Goto(t, "load", [local[t] EXCEPT !.c = 2])
           ELSE Goto(t, "store",
                     [local[t] EXCEPT !.tmp = CounterGet(CounterOf(ANALYTICS, c), KeyOf(a, c))])
    /\ UNCHANGED globals

\* counter[key] += 1, second half: the count plus one is stored.
tel_store(t) ==
    /\ pc[t] = "store"
    /\ LET a == local[t].snapshot[1].security_alerts[local[t].i]
           c == local[t].c
       IN  /\ ANALYTICS' = WithCounter(ANALYTICS, c,
                               CounterSet(CounterOf(ANALYTICS, c), KeyOf(a, c), local[t].tmp + 1))
           /\ IF c < 3
              THEN Goto(t, "load", [local[t] EXCEPT !.c = c + 1, !.tmp = 0])
              ELSE LoopAt(t, local[t].i + 1)
    /\ UNCHANGED <<FORCE_ATTACK, LAST_SNAPSHOT, clock, log_lines, response>>

\* line 191: LAST_SNAPSHOT = snapshot
tel_last(t) ==
    /\ pc[t] = "last"
    /\ LAST_SNAPSHOT' = local[t].snapshot
    /\ Goto(t, "log", local[t])
    /\ UNCHANGED <<FORCE_ATTACK, ANALYTICS, clock, log_lines, response>>

\* line 192
tel_log(t) ==
    /\ pc[t] = "log"
    /\ LET log == log_telemetry(log_lines, local[t].d)
       IN  /\ log_lines' = log.lines
           /\ IF log.raised
              THEN /\ response' = ServerError("telemetry")
                   /\ Goto(t, "idle", IdleLocal)
              ELSE /\ Goto(t, "respond", local[t])
                   /\ UNCHANGED response
    /\ UNCHANGED <<FORCE_ATTACK, ANALYTICS, LAST_SNAPSHOT, clock>>

\* lines 193, 205
tel_respond(t) ==
    /\ pc[t] = "respond"
    /\ response' = [op |-> "telemetry", status |-> 200, body |-> local[t].snapshot]
    /\ Goto(t, "idle", IdleLocal)
    /\ UNCHANGED <<FORCE_ATTACK, ANALYTICS, LAST_SNAPSHOT, clock, log_lines>>

\* POST /api/force_attack accepted
force_accept(t, req) ==
    /\ pc[t] = "idle"
    /\ Goto(t, "set", [IdleLocal EXCEPT !.req = req])
    /\ UNCHANGED globals

\* line 211
force_set(t) ==
    /\ pc[t] = "set"
    /\ IF local[t].req.kind = "object"
       THEN /\ FORCE_ATTACK' = (local[t].req.mode = Some("on"))
            /\ Goto(t, "reply", local[t])
            /\ UNCHANGED response
       ELSE /\ response' = ServerError("force_attack")
            /\ Goto(t, "idle", IdleLocal)
            /\ UNCHANGED FORCE_ATTACK
    /\ UNCHANGED <<ANALYTICS, LAST_SNAPSHOT, clock, log_lines>>

\* line 212 reads FORCE_ATTACK
force_reply(t) ==
    /\ pc[t] = "reply"
    /\ response' = [op |-> "force_attack", status |-> 200,
                    body |-> <<[forced_attack |-> FORCE_ATTACK]>>]
    /\ Goto(t, "idle", IdleLocal)
    /\ UNCHANGED <<FORCE_ATTACK, ANALYTICS, LAST_SNAPSHOT, clock, log_lines>>

\* GET /api/analytics accepted
ana_accept(t) ==
    /\ pc[t] = "idle"
    /\ Goto(t, "top", IdleLocal)
    /\ UNCHANGED globals

\* lines 218-220: the three most_common(5)
ana_top(t) ==
    /\ pc[t] = "top"
    /\ Goto(t, "timeline", [local[t] EXCEPT !.view = <<AnalyticsView(ANALYTICS)>>])
    /\ UNCHANGED globals

\* lines 221, 217: jsonify serialises the timeline list as it is then
ana_timeline(t) ==
    /\ pc[t] = "timeline"
    /\ response' = [op |-> "analytics", status |-> 200,
                    body |-> <<[local[t].view[1] EXCEPT
                                  !.events_timeline = ANALYTICS.events_timeline]>>]
    /\ Goto(t, "idle", IdleLocal)
    /\ UNCHANGED <<FORCE_ATTACK, ANALYTICS, LAST_SNAPSHOT, clock, log_lines>>

MaxConcTicks == 2

\* One alert a tick from the CAN rule, and a speed jump between the two.
ConcDraws ==
    {Draw(speed, 25, [hint_u |-> 10, frames |-> Batch(8, 2)], <<IpA, IpA, IpA>>, 0, TRUE) :
        speed \in {0, 140}}

ConcRequests == {req \in Requests : req.mode \in {Some("on"), Some("off")}}

\* The eviction step, tel_pop, needs a timeline of more than TimelineCap
\* entries, which MaxConcTicks ticks do not make: SpecNearCap has it.
NextConc ==
    \E t \in Threads :
        \/ \E d \in ConcDraws : clock < MaxConcTicks /\ tel_accept(t, d)
        \/ tel_hint(t)
        \/ tel_build(t)
        \/ tel_rules(t)
        \/ tel_force(t)
        \/ tel_append(t)
        \/ tel_len(t)
        \/ tel_load(t)
        \/ tel_store(t)
        \/ tel_last(t)
        \/ tel_log(t)
        \/ tel_respond(t)
        \/ \E req \in ConcRequests : force_accept(t, req)
        \/ force_set(t)
        \/ force_reply(t)
        \/ ana_accept(t)
        \/ ana_top(t)
        \/ ana_timeline(t)

SpecConc == Init /\ [][NextConc]_vars

(***************************************************************************)
(* Request threads at the timeline's cap: quiet ticks, one after the       *)
(* other, fill the timeline to one entry below the cap; then the request   *)
(* threads serve NearCapTicks telemetry requests, each raising one alert,  *)
(* and analytics requests.                                                 *)
(***************************************************************************)
NearCapTicks == 2

AtCap == clock >= TimelineCap - 1

NearCapDraws ==
    {Draw(60, 25, [hint_u |-> 10, frames |-> Batch(8, 2)], <<IpA, IpA, IpA>>, 0, TRUE)}

NextNearCap ==
    \/ ~AtCap /\ AllIdle /\ generate_telemetry(QuietDraw)
    \/ \E t \in Threads :
        \/ \E d \in NearCapDraws :
              AtCap /\ clock < TimelineCap - 1 + NearCapTicks /\ tel_accept(t, d)
        \/ tel_hint(t)
        \/ tel_build(t)
        \/ tel_rules(t)
        \/ tel_force(t)
        \/ tel_append(t)
        \/ tel_len(t)
        \/ tel_pop(t)
        \/ tel_load(t)
        \/ tel_store(t)
        \/ tel_last(t)
        \/ tel_log(t)
        \/ tel_respond(t)
        \/ AtCap /\ ana_accept(t)
        \/ ana_top(t)
        \/ ana_timeline(t)

SpecNearCap == Init /\ [][NextNearCap]_vars

(***************************************************************************)
(* Request threads counting the same keys: MaxRaceTicks telemetry          *)
(* requests, each raising the CAN alert and the brake alert from one       *)
(* address, so that a tick increments that address's count twice.          *)
(***************************************************************************)
MaxRaceTicks == 2

RaceDraws ==
    {Draw(140, 24, [hint_u |-> 10, frames |-> Batch(8, 2)], <<IpA, IpA, IpA>>, 0, TRUE)}

NextRace ==
    \E t \in Threads :
        \/ \E d \in RaceDraws : clock < MaxRaceTicks /\ tel_accept(t, d)
        \/ tel_hint(t)
        \/ tel_build(t)
        \/ tel_rules(t)
        \/ tel_force(t)
        \/ tel_append(t)
        \/ tel_len(t)
        \/ tel_load(t)
        \/ tel_store(t)
        \/ tel_last(t)
        \/ tel_log(t)
        \/ tel_respond(t)

SpecRace == Init /\ [][NextRace]_vars

(***************************************************************************)
(* The analytics query on counters of up to MaxKeys attackers, each        *)
(* counted up to MaxCount times: ticks, one after the other, each raising  *)
(* the CAN alert, from the address counted last or from a new one.         *)
(***************************************************************************)
MaxKeys == 6

MaxCount == 3

TopIp(i) == <<10, 0, 0, i>>

TopDraw(ip) == Draw(60, 25, [hint_u |-> 10, frames |-> Batch(8, 2)], <<ip, ip, ip>>, 0, TRUE)

TopDraws ==
    LET c == ANALYTICS.attack_counts_by_attacker
        n == Len(c)
    IN  {TopDraw(TopIp(k)) :
            k \in {j \in 1..MaxKeys : (j = n /\ c[j].count < MaxCount) \/ j = n + 1}}

NextTop ==
    \/ \E d \in TopDraws : generate_telemetry(d)
    \/ get_analytics

SpecTop == Init /\ [][NextTop]_vars

(***************************************************************************)
(* Properties.                                                             *)
(***************************************************************************)
\* A step that serves one telemetry request from start to response.
IsTick == clock' = clock + 1

\* The snapshot of a telemetry response.
Returned(r) == r.body[1]

IsTelemetry(r) == r.op = "telemetry" /\ r.status = 200

AlertsOfType(s, type) == {i \in DOMAIN s.security_alerts : s.security_alerts[i].attack_type = type}

AllStatus(s, status) == \A i \in DOMAIN s.heatmap : s.heatmap[i].status = status

\* C1: the snapshot a tick returns has attack_active true exactly when a rule
\* raised an alert in that tick or the force-attack switch was on when the
\* tick ran; with no alert and the switch off it is false.
C1_AttackActiveIff ==
    [][IsTick =>
        LET s == Returned(response')
        IN  s.attack_active <=> (s.security_alerts # <<>> \/ FORCE_ATTACK)]_vars

C1_Witness ==
    /\ IsTelemetry(response)
    /\ Returned(response).attack_active
    /\ Returned(response).security_alerts # <<>>
    /\ ~Returned(response).forced_attack

\* C2: a tick that runs with the switch on returns attack_active true, all
\* six heatmap entries "compromised", a CAN anomaly score in [0.85, 1.0] and
\* every ECU health in [0.2, 0.5], whether or not a rule fired.
C2_ForcedOverride ==
    [][IsTick /\ FORCE_ATTACK =>
        LET s == Returned(response')
        IN  /\ s.attack_active
            /\ Len(s.heatmap) = 6
            /\ AllStatus(s, "compromised")
            /\ s.can_anomaly_score \in 85..100
            /\ \A e \in EcuSet : s.ecu_health[e] \in 20..50]_vars

C2_Witness ==
    /\ IsTelemetry(response)
    /\ Returned(response).forced_attack
    /\ Returned(response).security_alerts # <<>>
    /\ AllStatus(Returned(response), "compromised")

\* C3: the timeline left by every completed request, and the timeline every
\* analytics response returns, has at most 200 entries.
C3_TimelineBounded ==
    /\ Len(ANALYTICS.events_timeline) <= TimelineCap
    /\ response.op = "analytics" =>
          Len(Returned(response).events_timeline) <= TimelineCap

C3_Witness ==
    /\ clock > TimelineCap
    /\ response.op = "analytics"
    /\ Len(Returned(response).events_timeline) = TimelineCap

\* C4: after n ticks the timeline is the entries of the last min(n, 200)
\* ticks in the order recorded; a tick appends one entry, its own, at the
\* end, and at capacity evicts the entry at index 0 and no other.
C4_TimelineFifo ==
    /\ [](LET tl == ANALYTICS.events_timeline
          IN  /\ Len(tl) = Min(clock, TimelineCap)
              /\ \A i \in DOMAIN tl : tl[i].timestamp = clock - Len(tl) + i)
    /\ [][IsTick =>
            LET tl  == ANALYTICS.events_timeline
                new == ANALYTICS'.events_timeline
                s   == Returned(response')
            IN  /\ new[Len(new)] = [timestamp       |-> clock',
                                    total_alerts    |-> Len(s.security_alerts),
                                    critical_alerts |->
                                        Cardinality({i \in DOMAIN s.security_alerts :
                                            s.security_alerts[i].level \in {"HIGH", "CRITICAL"}}),
                                    attack_active   |-> s.attack_active]
                /\ SubSeq(new, 1, Len(new) - 1) =
                      IF Len(tl) < TimelineCap THEN tl ELSE Tail(tl)]_vars

C4_Witness ==
    /\ clock = TimelineCap + 2
    /\ Len(ANALYTICS.events_timeline) = TimelineCap
    /\ ANALYTICS.events_timeline[1].timestamp = 3
    /\ ANALYTICS.events_timeline[TimelineCap].total_alerts > 0

\* C5: LAST_SNAPSHOT is None before the first tick and after every tick is
\* the snapshot that tick returned; the physics rule of a tick compares with
\* the speed of the tick just before it; setForceAttack and queryAnalytics
\* leave LAST_SNAPSHOT alone.
C5_PreviousSnapshot ==
    /\ [](IF clock = 0 THEN LAST_SNAPSHOT = None
          ELSE LAST_SNAPSHOT # None /\ LAST_SNAPSHOT[1].timestamp = clock)
    /\ [][IF IsTick
          THEN LET s == Returned(response')
                   physics == AlertsOfType(s, "Physical Implausibility")
               IN  /\ LAST_SNAPSHOT' = <<s>>
                   /\ IF LAST_SNAPSHOT # None
                         /\ Abs(s.speed - LAST_SNAPSHOT[1].speed) > SpeedJumpLimit
                      THEN \E i \in physics :
                              s.security_alerts[i].message.arg
                                 = Abs(s.speed - LAST_SNAPSHOT[1].speed)
                      ELSE physics = {}
          ELSE UNCHANGED LAST_SNAPSHOT]_vars

\* A third tick at the speed of the second, after a jump from the first.
C5_Witness ==
    /\ clock >= 3
    /\ LAST_SNAPSHOT # None
    /\ LAST_SNAPSHOT[1].speed = 140
    /\ AlertsOfType(LAST_SNAPSHOT[1], "Physical Implausibility") = {}
    /\ ANALYTICS.events_timeline[Len(ANALYTICS.events_timeline) - 1].total_alerts = 3

\* A thread that has read LAST_SNAPSHOT for its rules and has not yet
\* assigned its own snapshot to it.
BetweenReadAndWrite(t) == pc[t] \in {"force", "append", "len", "pop", "load", "store", "last"}

\* C6: two concurrent ticks never interleave the read of LAST_SNAPSHOT with
\* the write of it: no tick is between its read and its write while another
\* is, and no two ticks in flight evaluated the rules against the same
\* previous snapshot.
C6_NoInterleavedTicks ==
    \A t1, t2 \in Threads :
        t1 # t2 =>
            /\ ~(BetweenReadAndWrite(t1) /\ BetweenReadAndWrite(t2))
            /\ local[t1].has_prev /\ local[t2].has_prev => local[t1].prev # local[t2].prev

\* C7: under concurrent ticks and queries no analytics response carries a
\* timeline of more than 200 entries, and once every tick has completed the
\* timeline holds min(ticks, 200) entries.
C7_TimelineAtomic ==
    /\ response.op = "analytics" =>
          Len(Returned(response).events_timeline) <= TimelineCap
    /\ AllIdle => Len(ANALYTICS.events_timeline) = Min(clock, TimelineCap)

RECURSIVE TimelineAlerts(_)
TimelineAlerts(tl) == IF tl = <<>> THEN 0 ELSE Head(tl).total_alerts + TimelineAlerts(Tail(tl))

\* C8: once every concurrent tick has completed, the counts of each ranking
\* counter add up to the alerts the ticks raised (the timeline, below its
\* cap, records how many each raised), and the count of "DoS/Fuzzing", which
\* every tick of ConcDraws raises once, is the number of ticks.
C8_NoLostCount ==
    AllIdle =>
        /\ CounterTotal(ANALYTICS.attack_counts_by_ecu) = TimelineAlerts(ANALYTICS.events_timeline)
        /\ CounterTotal(ANALYTICS.attack_counts_by_type) = TimelineAlerts(ANALYTICS.events_timeline)
        /\ CounterTotal(ANALYTICS.attack_counts_by_attacker) = TimelineAlerts(ANALYTICS.events_timeline)
        /\ CounterGet(ANALYTICS.attack_counts_by_type, "DoS/Fuzzing") = clock

AnomalousFrames(s) == {i \in DOMAIN s.can_packets : s.can_packets[i].anomaly}

\* C9: a tick raises the CAN anomaly alert exactly when at least 8 of its 15
\* frames are anomalous: then one HIGH alert, source "Telematics", type
\* "DoS/Fuzzing", reporting the count; with 7 or fewer, none.
C9_CanAnomalyRule ==
    IsTelemetry(response) =>
        LET s   == Returned(response)
            n   == Cardinality(AnomalousFrames(s))
            can == AlertsOfType(s, "DoS/Fuzzing")
        IN  /\ Len(s.can_packets) = 15
            /\ IF n >= 8
               THEN /\ Cardinality(can) = 1
                    /\ \A i \in can :
                          /\ s.security_alerts[i].level = "HIGH"
                          /\ s.security_alerts[i].source = "Telematics"
                          /\ s.security_alerts[i].message.arg = n
               ELSE can = {}

C9_Witness ==
    /\ IsTelemetry(response)
    /\ Cardinality(AnomalousFrames(Returned(response))) = 8
    /\ AlertsOfType(Returned(response), "DoS/Fuzzing") # {}

\* C10: a tick raises the physics alert exactly when a previous snapshot
\* exists and the speed differs from its speed by more than 60: then one HIGH
\* alert, source "Engine ECU", type "Physical Implausibility", reporting the
\* difference; at a difference of 60, and on the first tick, none.
C10_PhysicsRule ==
    [][IsTick =>
        LET s       == Returned(response')
            physics == AlertsOfType(s, "Physical Implausibility")
        IN  IF LAST_SNAPSHOT # None /\ Abs(s.speed - LAST_SNAPSHOT[1].speed) > 60
            THEN /\ Cardinality(physics) = 1
                 /\ \A i \in physics :
                       /\ s.security_alerts[i].level = "HIGH"
                       /\ s.security_alerts[i].source = "Engine ECU"
                       /\ s.security_alerts[i].message.arg
                             = Abs(s.speed - LAST_SNAPSHOT[1].speed)
            ELSE physics = {}]_vars

C10_Witness ==
    /\ IsTelemetry(response)
    /\ \E i \in AlertsOfType(Returned(response), "Physical Implausibility") :
          Returned(response).security_alerts[i].message.arg = 61

\* C11: a tick raises the brake alert exactly when the brake is ON and the
\* speed is above 120: then one CRITICAL alert, source "Brake ECU", type
\* "Safety Violation", reporting the speed; at 120 or below, and with the
\* brake OFF at any speed, none.
C11_BrakeRule ==
    IsTelemetry(response) =>
        LET s     == Returned(response)
            brake == AlertsOfType(s, "Safety Violation")
        IN  IF s.brake_status = "ON" /\ s.speed > 120
            THEN /\ Cardinality(brake) = 1
                 /\ \A i \in brake :
                       /\ s.security_alerts[i].level = "CRITICAL"
                       /\ s.security_alerts[i].source = "Brake ECU"
                       /\ s.security_alerts[i].message.arg = s.speed
            ELSE brake = {}

C11_Witness ==
    /\ IsTelemetry(response)
    /\ Returned(response).speed = 121
    /\ Returned(response).brake_status = "ON"
    /\ AlertsOfType(Returned(response), "Safety Violation") # {}

\* The place of an alert's type in the order the rules run in.
RuleRank(type) ==
    CASE type = "DoS/Fuzzing"             -> 1
      [] type = "Physical Implausibility" -> 2
      [] type = "Safety Violation"        -> 3
      [] OTHER                            -> 0

\* C12: the alerts of a tick are at most one per rule, so at most three, and
\* come in the order CAN anomaly, physics, brake, whichever rules fired.
C12_AlertOrder ==
    IsTelemetry(response) =>
        LET alerts == Returned(response).security_alerts
        IN  /\ Len(alerts) <= 3
            /\ \A i \in DOMAIN alerts : RuleRank(alerts[i].attack_type) \in 1..3
            /\ \A i, j \in DOMAIN alerts :
                  i < j => RuleRank(alerts[i].attack_type) < RuleRank(alerts[j].attack_type)

C12_Witness ==
    /\ IsTelemetry(response)
    /\ Len(Returned(response).security_alerts) = 3

\* The three ranking counters.
RankingCounters(an) ==
    <<an.attack_counts_by_ecu, an.attack_counts_by_type, an.attack_counts_by_attacker>>

\* Every key of c is a key of c2 with a count at least as high.
NotLowered(c, c2) ==
    /\ CounterKeys(c) \subseteq CounterKeys(c2)
    /\ \A k \in CounterKeys(c) : CounterGet(c2, k) >= CounterGet(c, k)

\* C13: the ranking counters never go down: no step, whether a tick, a
\* force-attack request or an analytics query, lowers the count of a key or
\* removes a key from the by-ECU, by-type or by-attacker counter.
C13_CountersMonotone ==
    [][\A n \in 1..3 :
          NotLowered(RankingCounters(ANALYTICS)[n], RankingCounters(ANALYTICS')[n])]_vars

\* The three top-N lists of an analytics response, as [key, count] entries,
\* in the order of RankingCounters.
TopLists(view) ==
    <<[i \in DOMAIN view.top_ecu_targets |->
          [key |-> view.top_ecu_targets[i].ecu, count |-> view.top_ecu_targets[i].count]],
      [i \in DOMAIN view.top_attack_types |->
          [key |-> view.top_attack_types[i].type, count |-> view.top_attack_types[i].count]],
      [i \in DOMAIN view.top_attackers |->
          [key |-> view.top_attackers[i].attacker, count |-> view.top_attackers[i].count]]>>

\* Where key k stands in the counter c: the order of first counting.
FirstCounted(c, k) == CHOOSE i \in DOMAIN c : c[i].key = k

\* top is the five highest entries of c, highest first, entries of equal
\* count in the order of first counting (and, where the cut falls among
\* equal counts, the first counted kept).
IsTopFive(top, c) ==
    LET left_out == CounterKeys(c) \ CounterKeys(top)
    IN  /\ Len(top) <= 5
        /\ Len(top) = Min(5, Len(c))
        /\ \A i \in DOMAIN top : \E j \in DOMAIN c : c[j] = top[i]
        /\ \A i, j \in DOMAIN top : i < j =>
              /\ top[i].key # top[j].key
              /\ top[i].count >= top[j].count
              /\ top[i].count = top[j].count =>
                    FirstCounted(c, top[i].key) < FirstCounted(c, top[j].key)
        /\ \A k \in left_out : \A i \in DOMAIN top :
              /\ top[i].count >= CounterGet(c, k)
              /\ top[i].count = CounterGet(c, k) =>
                    FirstCounted(c, top[i].key) < FirstCounted(c, k)

\* C14: whatever the counters hold, each of the three top-N lists an
\* analytics query returns has at most 5 entries, is sorted by count
\* descending, holds the keys of the highest counts, and lists keys of equal
\* count in the order in which they were first counted.
C14_TopFive ==
    response.op = "analytics" =>
        \A n \in 1..3 :
            IsTopFive(TopLists(Returned(response))[n], RankingCounters(ANALYTICS)[n])

\* Six attackers, two of the listed ones with equal counts, the one left
\* out counted before one that is listed.
C14_Witness ==
    /\ response.op = "analytics"
    /\ Len(ANALYTICS.attack_counts_by_attacker) = 6
    /\ LET top == TopLists(Returned(response))[3]
           c   == ANALYTICS.attack_counts_by_attacker
       IN  /\ Len(top) = 5
           /\ \E i \in 1..4 : top[i].count = top[i + 1].count
           /\ \E k \in CounterKeys(c) \ CounterKeys(top) :
                 \E i \in DOMAIN top : FirstCounted(c, k) < FirstCounted(c, top[i].key)

\* C15: a force-attack request never fails, whatever its input: it answers
\* with the switch's new state, which is on for mode "on" and off for every
\* other input (mode "off", another mode, a body without a mode, no body or
\* a body that is not an object).
C15_MalformedIsOff ==
    [][\A req \in Requests :
          force_attack(req) =>
              /\ response'.status = 200
              /\ FORCE_ATTACK' = (req.kind = "object" /\ req.mode = Some("on"))
              /\ response'.body = <<[forced_attack |-> FORCE_ATTACK']>>]_vars

\* C16: a tick whose append to the log fails answers as the same tick
\* answers when the append succeeds: no error, the same snapshot, the same
\* counters and timeline, the same previous snapshot.
C16_LogFailureHarmless ==
    [][IsTick /\ log_lines' = log_lines =>
          \A d \in TickDraws :
              ~d.log_ok /\ generate_telemetry(d) =>
                  LET logged   == [d EXCEPT !.log_ok = TRUE]
                      snapshot == TickSnapshot(FORCE_ATTACK, LAST_SNAPSHOT, logged, clock + 1)
                  IN  /\ response' = [op |-> "telemetry", status |-> 200,
                                      body |-> <<snapshot>>]
                      /\ ANALYTICS' = update_analytics(ANALYTICS, snapshot.security_alerts,
                                                       snapshot.attack_active, clock + 1)
                      /\ LAST_SNAPSHOT' = Some(snapshot)]_vars

\* Two ticks served and neither logged, the second answered with alerts.
C16_Witness ==
    /\ clock = 2
    /\ log_lines = 0
    /\ IsTelemetry(response)
    /\ Returned(response).timestamp = 2
    /\ Returned(response).security_alerts # <<>>
    /\ LAST_SNAPSHOT = response.body

\* C17: only a tick changes the analytics: a force-attack request and an
\* analytics query leave the three counters and the timeline as they were,
\* so a query that follows a query returns the same; and a tick leaves the
\* force-attack switch as it was.
C17_Frame ==
    [][/\ IsTick => FORCE_ATTACK' = FORCE_ATTACK
       /\ ~IsTick => ANALYTICS' = ANALYTICS
       /\ response.op = "analytics" /\ response'.op = "analytics" => response' = response]_vars

\* A query answered after two ticks, the later of them run with the switch
\* on, and the switch still on.
C17_Witness ==
    /\ response.op = "analytics"
    /\ Len(Returned(response).events_timeline) = 2
    /\ Returned(response).top_attack_types # <<>>
    /\ LAST_SNAPSHOT[1].forced_attack
    /\ FORCE_ATTACK

\* C18: a tick that runs with the switch off and returns attack_active true
\* returns the heatmap entries of Engine ECU, Brake ECU and Telematics as
\* "warning" with a health in [0.3, 0.7], and those of Steering ECU,
\* Infotainment and ADAS ECU as "ok" with a health in [0.8, 1.0]; a tick that
\* returns attack_active false returns every entry as "ok".
C18_WarningDegradation ==
    [][IsTick /\ ~FORCE_ATTACK =>
        LET s        == Returned(response')
            degraded == {"Engine ECU", "Brake ECU", "Telematics"}
            kept     == {"Steering ECU", "Infotainment", "ADAS ECU"}
        IN  /\ {s.heatmap[i].name : i \in DOMAIN s.heatmap} = degraded \cup kept
            /\ IF s.attack_active
               THEN \A i \in DOMAIN s.heatmap :
                       LET name == s.heatmap[i].name
                       IN  IF name \in degraded
                           THEN /\ s.heatmap[i].status = "warning"
                                /\ s.ecu_health[name] \in 30..70
                           ELSE /\ s.heatmap[i].status = "ok"
                                /\ s.ecu_health[name] \in 80..100
               ELSE AllStatus(s, "ok")]_vars

C18_Witness ==
    /\ IsTelemetry(response)
    /\ Returned(response).attack_active
    /\ ~Returned(response).forced_attack
    /\ Returned(response).heatmap[1].status = "warning"
    /\ Returned(response).ecu_health["Engine ECU"] = 70
    /\ Returned(response).ecu_health["ADAS ECU"] = 100

\* C19: every snapshot returned says the same about forced mode throughout,
\* also when a force-attack request is served while the tick runs: its
\* forced_attack flag is true exactly when its heatmap is all "compromised",
\* and then its CAN anomaly score is in [0.85, 1.0].
C19_ForcedConsistent ==
    IsTelemetry(response) =>
        LET s == Returned(response)
        IN  /\ s.forced_attack <=> AllStatus(s, "compromised")
            /\ s.forced_attack => s.can_anomaly_score \in 85..100

\* C20: with the ticks served one after the other, the three counters count
\* the same alerts: the by-ECU counts, the by-type counts and the by-attacker
\* counts each add up to the number of alerts raised so far, which, while
\* the timeline has dropped no entry, is the sum of its entries'
\* total_alerts.
C20_CountersAgree ==
    Len(ANALYTICS.events_timeline) = clock =>
        \A n \in 1..3 :
            CounterTotal(RankingCounters(ANALYTICS)[n]) = TimelineAlerts(ANALYTICS.events_timeline)

\* Two ticks, one alert in the first and all three in the second.
C20_Witness ==
    /\ clock = 2
    /\ TimelineAlerts(ANALYTICS.events_timeline) = 4
    /\ CounterTotal(ANALYTICS.attack_counts_by_ecu) = 4
    /\ Len(ANALYTICS.attack_counts_by_ecu) = 3
    /\ Len(ANALYTICS.attack_counts_by_attacker) = 2

====
